---- MODULE Spec2Model ----
(***************************************************************************)
(* Update orchestration of the desktop cleaner: the Windows driver lane    *)
(* (checkDriverUpdates, updateDrivers, createRestorePoint) and the system  *)
(* lane (checkSystemUpdates, checkWindowsUpdates).  Every `await` of the   *)
(* JavaScript source is a step boundary; the synchronous code between two  *)
(* awaits is one atomic action.                                            *)
(***************************************************************************)
EXTENDS Integers, Sequences, FiniteSets, TLC

(* ------------------------------ bounds --------------------------------- *)
\* longest driverIds array a caller passes
MaxIds == 2
\* largest value of Date.now() the clock reaches
MaxClock == 1
\* longest JSON array a detection method prints
MaxList == 2

(* ----------------------------- universes ------------------------------- *)
\* update identities the platform may offer (Identity.UpdateID)
UpdateIds == {"A", "B"}
\* concurrent invocations of updateDrivers
Procs == {1, 2}
Platforms == {"win32", "darwin", "linux"}
\* progressCallback: absent, well behaved, or throwing at checkpoint k
Callbacks == {"none", "ok", "throw0", "throw1", "throw2", "throw3"}
\* install result codes the platform may report; 6 stands for any unmapped code
PlatformCodes == 0..6

SeqsUpTo(S, n) == UNION {[1..k -> S] : k \in 0..n}
Range(s) == {s[i] : i \in 1..Len(s)}
Requests == SeqsUpTo(UpdateIds, MaxIds)

(* ------------------------- error message texts ------------------------- *)
MsgNotWindows == "Driver updates are only available on Windows"
MsgNoIds == "No driver IDs provided"
\* util.promisify(exec) rejection: "Command failed: <cmd>\n<stderr>"
MsgCmdFailed == "Command failed: powershell -ExecutionPolicy Bypass -File"
MsgCmdFailedWU == "Command failed: powershell -ExecutionPolicy Bypass -File; Windows Update service is stopped"
MsgCallback == "callback error"
MsgRestoreFailed == "Could not create restore point: Failed to create restore point"
MsgWriteFailed == "EACCES: permission denied, open"
MsgUnlinkFailed == "ENOENT: no such file or directory, unlink"
MsgTimedOut == "Driver installation timed out. Large drivers may take longer. Please try again or install drivers individually."
MsgPermission == "Permission denied. Please run the application as Administrator to install driver updates."
MsgServiceDown == "Windows Update service is not available. Please enable it in Windows Services."

\* String.prototype.includes(word) on the error.message texts above
Includes(msg, word) ==
    \/ msg = MsgWriteFailed /\ word = "permission"
    \/ msg = MsgCmdFailedWU /\ word = "Windows Update"
    \/ msg = MsgNotWindows /\ word = "Windows"

\* the catch block's rewriting of error.message
ErrorMessage(msg) ==
    IF Includes(msg, "timeout") THEN MsgTimedOut
    ELSE IF Includes(msg, "access") \/ Includes(msg, "permission") THEN MsgPermission
    ELSE IF Includes(msg, "Windows Update") THEN MsgServiceDown
    ELSE msg

(* ----------------------------- result codes ---------------------------- *)
RESULT_CODES ==
    [c \in 0..5 |-> CASE c = 0 -> "Not Started"
                      [] c = 1 -> "In Progress"
                      [] c = 2 -> "Succeeded"
                      [] c = 3 -> "Succeeded with Errors"
                      [] c = 4 -> "Failed"
                      [] c = 5 -> "Aborted"]

ResultText(c) == IF c \in DOMAIN RESULT_CODES THEN RESULT_CODES[c] ELSE "Unknown"

NoCode == -1
NoText == "<undefined>"
NoPath == -1

(* ------------------------------- state --------------------------------- *)
VARIABLES
    platform,     \* process.platform / os.platform()
    now,          \* Date.now()
    fs,           \* temporary directory: script path -> file
    pc,           \* position of each updateDrivers invocation
    driverIds,    \* argument driverIds of each invocation
    cb,           \* argument progressCallback of each invocation
    scriptPath,   \* const scriptPath
    results,      \* const results = { updated, failed, rebootRequired }
    stdout,       \* stdout of the resolved install exec
    child,        \* the elevated PowerShell process running the script
    ret,          \* what the invocation returned or threw
    progress,     \* events handed to progressCallback, in order
    obs,          \* observations of the invocation's external effects
    dpc,          \* position of the checkDriverUpdates invocation
    dret,         \* what checkDriverUpdates returned or threw
    dobs,         \* observations of the detection's external effects
    lastSession,  \* candidate ids of the most recent driver detection result
    spc,          \* position of the checkSystemUpdates invocation
    sret,         \* what checkSystemUpdates returned
    sobs,         \* observations of the system check's external effects
    service,      \* state of the wuauserv service on the host
    starts,       \* commands issued so far that start or re-enable the service
    wpc,          \* position of the checkWindowsUpdate invocation
    wret,         \* what checkWindowsUpdate returned
    wobs,         \* observations of the service query's external effects
    upc,          \* position of the installSystemUpdates invocation
    uret,         \* what installSystemUpdates returned
    uobs,         \* observations of the system install's external effects
    informational, \* ids of the candidates marked informationalOnly
    vpc,          \* position of the updateDrivers invocation of part_001
    vret,         \* what updateDrivers of part_001 returned or threw
    vobs,         \* observations of that invocation's external effects
    isChecking,   \* DriverUpdater view: const [isChecking, setIsChecking]
    isUpdating,   \* DriverUpdater view: const [isUpdating, setIsUpdating]
    viewDrivers,  \* DriverUpdater view: UpdateID of each entry of const [drivers, setDrivers]
    selectedDrivers \* DriverUpdater view: const [selectedDrivers, setSelectedDrivers], in insertion order

ivars == <<pc, driverIds, cb, scriptPath, results, stdout, child, ret, progress, obs>>
dvars == <<dpc, dret, dobs, lastSession>>
svars == <<spc, sret, sobs>>
wvars == <<service, starts, wpc, wret, wobs>>
uvars == <<upc, uret, uobs>>
vvars == <<vpc, vret, vobs>>
xvars == <<wvars, uvars, informational, vvars>>
gvars == <<isChecking, isUpdating, viewDrivers, selectedDrivers>>
vars == <<platform, now, fs, ivars, dvars, svars, xvars, gvars>>

Paths == 0..MaxClock
NoFile == [exists |-> FALSE, ids |-> <<>>]
NoChild == [state |-> "none", target |-> <<>>]
NoStdout == [hasJson |-> FALSE, ResultCode |-> NoCode, RebootRequired |-> FALSE]
NoRet == [kind |-> "none", success |-> FALSE, error |-> NoText, message |-> NoText,
          hasData |-> FALSE, updated |-> <<>>, failed |-> <<>>, rebootRequired |-> FALSE,
          resultCode |-> NoCode, resultText |-> NoText]
EmptyResults == [updated |-> <<>>, failed |-> <<>>, rebootRequired |-> FALSE]
NoObs == [spawned |-> 0, restorePoints |-> 0, restoreFailed |-> FALSE, wrote |-> FALSE,
          searched |-> FALSE, available |-> {}, handed |-> FALSE, target |-> {},
          installed |-> FALSE, code |-> NoCode, reboot |-> FALSE,
          execOutcome |-> "none", unlinked |-> "none"]

(* ---------------------------- updateDrivers ---------------------------- *)
IsEmptySelection_Never(ids) == FALSE
\* if (!driverIds || driverIds.length === 0)
IsEmptySelection(ids) == Len(ids) = 0

ProgressTotal_NoStages(ids) == Len(ids)
\* total: driverIds.length + 2
ProgressTotal(ids) == Len(ids) + 2

Event(cur, ids) == [current |-> cur, total |-> ProgressTotal(ids)]

\* if (progressCallback) { progressCallback({...}) }
Notify(log, c, cur, ids) == IF c = "none" THEN log ELSE Append(log, Event(cur, ids))

\* a checkpoint without the guard throws when no callback was passed
CbThrows_Unguarded(c, k) ==
    \/ c = "none"
    \/ c = "throw0" /\ k = 0
    \/ c = "throw1" /\ k = 1
    \/ c = "throw2" /\ k = 2
    \/ c = "throw3" /\ k = 3
\* whether the guarded call at checkpoint k ends in an exception
CbThrows(c, k) ==
    \/ c = "throw0" /\ k = 0
    \/ c = "throw1" /\ k = 1
    \/ c = "throw2" /\ k = 2
    \/ c = "throw3" /\ k = 3

\* throw new Error(...) before the try block
ThrowValue(msg) == [NoRet EXCEPT !.kind = "throw", !.error = msg]

\* return { success: false, error: 'No driver IDs provided', data: {...} }
ValidationFailure ==
    [NoRet EXCEPT !.kind = "value", !.success = FALSE, !.error = MsgNoIds, !.hasData = TRUE]

\* a catch block that throws again instead of returning
CatchValue_Rethrow(res, ids, msg) == [NoRet EXCEPT !.kind = "throw", !.error = msg]
\* catch (error) { results.failed = driverIds; ... return {success:false, error, data: results} }
CatchValue(res, ids, msg) ==
    [NoRet EXCEPT !.kind = "value", !.success = FALSE, !.error = ErrorMessage(msg),
                  !.hasData = TRUE, !.updated = res.updated, !.failed = ids,
                  !.rebootRequired = res.rebootRequired]

\* the generated script's first line: $TargetDriverIDs = @("id1","id2",...)
ScriptTargetIds(ids) == ids

\* foreach ($Update in $SearchResult.Updates) { if ($TargetDriverIDs -contains $UpdateID) {...Add} }
SelectTargets(avail, targetIds) == {u \in avail : u \in Range(targetIds)}

\* the generated PowerShell script, from the search to its exit code
RunScript(targetIds, avail, searchThrows, dl, code, reboot) ==
    LET sel == SelectTargets(avail, targetIds)
        base == [exit |-> 4, hasJson |-> FALSE, ResultCode |-> NoCode, RebootRequired |-> FALSE,
                 searched |-> TRUE, available |-> avail, handed |-> FALSE, target |-> {},
                 installed |-> FALSE]
    IN  IF searchThrows THEN [base EXCEPT !.available = {}]
        ELSE IF sel = {} THEN base
        ELSE IF dl # 2 THEN [base EXCEPT !.handed = TRUE, !.target = sel]
        ELSE [base EXCEPT !.handed = TRUE, !.target = sel, !.installed = TRUE,
                          !.hasJson = TRUE, !.ResultCode = code, !.RebootRequired = reboot,
                          !.exit = code]

\* util.promisify(exec): the promise rejects when the exit code is not 0
ExecRejects(exit) == exit # 0

\* stdout.match(/\{.*"ResultCode".*\}/) ... installResult?.ResultCode ?? 4
InterpretCode(out) == IF out.hasJson THEN out.ResultCode ELSE 4

IsSuccessCode_NotFailed(c) == c # 4
\* const success = resultCode === 2 || resultCode === 3
IsSuccessCode(c) == c = 2 \/ c = 3

\* createRestorePoint: throws when exec rejects or stdout lacks SUCCESS
RestoreOutcomes == {"success", "failed", "rejected", "timeout"}
CreateRestorePointThrows(out) == out # "success"

RestoreFailureAborts_Rethrow(threw) == threw
\* try { await createRestorePoint(...) } catch (restoreError) { console.warn(...) }
RestoreFailureAborts(threw) == FALSE

NextStage_SkipWrite(stage) ==
    CASE stage = "idle" -> "restore"
      [] stage = "restore" -> "exec"
      [] stage = "write" -> "exec"
      [] stage = "exec" -> "unlink"
      [] OTHER -> "done"
\* the await that follows each await of updateDrivers when nothing throws:
\* createRestorePoint, fs.writeFile, execPromise, fs.unlink, then the return
NextStage(stage) ==
    CASE stage = "idle" -> "restore"
      [] stage = "restore" -> "write"
      [] stage = "write" -> "exec"
      [] stage = "exec" -> "unlink"
      [] OTHER -> "done"

Finish(p, r, res) ==
    /\ ret' = [ret EXCEPT ![p] = r]
    /\ results' = [results EXCEPT ![p] = res]
    /\ pc' = [pc EXCEPT ![p] = "done"]

\* the outer catch block
Catch(p, res, ids, msg) ==
    Finish(p, CatchValue(res, ids, msg), [res EXCEPT !.failed = ids])

IsWindows_Any(pf) == TRUE
\* process.platform !== 'win32' is the first statement of each driver operation
IsWindows(pf) == pf = "win32"

\* updateDrivers up to its first await
UpdateDriversCall(p, ids, c) ==
    /\ pc[p] = "idle"
    /\ driverIds' = [driverIds EXCEPT ![p] = ids]
    /\ cb' = [cb EXCEPT ![p] = c]
    /\ UNCHANGED <<platform, now, fs, scriptPath, stdout, child, dvars, svars, xvars>>
    /\ IF ~IsWindows(platform)
       THEN /\ Finish(p, ThrowValue(MsgNotWindows), EmptyResults)
            /\ UNCHANGED <<progress, obs>>
       ELSE IF IsEmptySelection(ids)
       THEN /\ Finish(p, ValidationFailure, EmptyResults)
            /\ UNCHANGED <<progress, obs>>
       ELSE /\ progress' = [progress EXCEPT ![p] = Notify(<<>>, c, 0, ids)]
            /\ IF CbThrows(c, 0)
               THEN /\ Catch(p, EmptyResults, ids, MsgCallback)
                    /\ UNCHANGED obs
               ELSE /\ pc' = [pc EXCEPT ![p] = NextStage("idle")]
                    /\ obs' = [obs EXCEPT ![p].spawned = @ + 1, ![p].restorePoints = @ + 1]
                    /\ UNCHANGED <<ret, results>>

\* createRestorePoint settles; updateDrivers runs on to await fs.writeFile
RestorePointDone(p, out) ==
    /\ pc[p] = "restore"
    /\ LET threw == CreateRestorePointThrows(out)
           ids == driverIds[p]
       IN  /\ obs' = [obs EXCEPT ![p].restoreFailed = threw]
           /\ IF threw /\ RestoreFailureAborts(threw)
              THEN /\ Catch(p, results[p], ids, MsgRestoreFailed)
                   /\ UNCHANGED <<progress, scriptPath>>
              ELSE /\ progress' = [progress EXCEPT ![p] = Notify(@, cb[p], 1, ids)]
                   /\ IF CbThrows(cb[p], 1)
                      THEN /\ Catch(p, results[p], ids, MsgCallback)
                           /\ UNCHANGED scriptPath
                      ELSE /\ scriptPath' = [scriptPath EXCEPT ![p] = now]
                           /\ pc' = [pc EXCEPT ![p] = NextStage("restore")]
                           /\ UNCHANGED <<ret, results>>
    /\ UNCHANGED <<platform, now, fs, driverIds, cb, stdout, child, dvars, svars, xvars, gvars>>

\* fs.writeFile settles; updateDrivers runs on to await execPromise(command)
WriteFileDone(p, ok) ==
    /\ pc[p] = "write"
    /\ LET ids == driverIds[p]
       IN  IF ~ok
           THEN /\ Catch(p, results[p], ids, MsgWriteFailed)
                /\ UNCHANGED <<fs, progress, child, obs>>
           ELSE /\ fs' = [fs EXCEPT ![scriptPath[p]] =
                               [exists |-> TRUE, ids |-> ScriptTargetIds(ids)]]
                /\ progress' = [progress EXCEPT ![p] = Notify(@, cb[p], 2, ids)]
                /\ IF CbThrows(cb[p], 2)
                   THEN /\ Catch(p, results[p], ids, MsgCallback)
                        /\ obs' = [obs EXCEPT ![p].wrote = TRUE]
                        /\ UNCHANGED child
                   ELSE /\ child' = [child EXCEPT ![p] = [state |-> "spawned", target |-> <<>>]]
                        /\ obs' = [obs EXCEPT ![p].wrote = TRUE, ![p].spawned = @ + 1]
                        /\ pc' = [pc EXCEPT ![p] = NextStage("write")]
                        /\ UNCHANGED <<ret, results>>
    /\ UNCHANGED <<platform, now, driverIds, cb, scriptPath, stdout, dvars, svars, xvars, gvars>>

\* powershell -File "<scriptPath>": the child process reads the script file
ScriptLoad(p) ==
    /\ pc[p] = "exec"
    /\ child[p].state = "spawned"
    /\ child' = [child EXCEPT ![p] =
                    IF fs[scriptPath[p]].exists
                    THEN [state |-> "loaded", target |-> fs[scriptPath[p]].ids]
                    ELSE [state |-> "nofile", target |-> <<>>]]
    /\ UNCHANGED <<platform, now, fs, pc, driverIds, cb, scriptPath, results, stdout,
                   ret, progress, obs, dvars, svars, xvars, gvars>>

\* what the elevated process may do: be killed at the timeout, or run the script
\* against some search result, download result and install result
ScriptRuns ==
       {[how |-> "timeout", avail |-> {}, searchThrows |-> FALSE, dl |-> 2, code |-> 0,
         reboot |-> FALSE]}
    \cup {[how |-> "exited", avail |-> {}, searchThrows |-> TRUE, dl |-> 2, code |-> 0,
           reboot |-> FALSE]}
    \cup {[how |-> "exited", avail |-> a, searchThrows |-> FALSE, dl |-> 4, code |-> 0,
           reboot |-> FALSE] : a \in SUBSET UpdateIds}
    \cup {[how |-> "exited", avail |-> a, searchThrows |-> FALSE, dl |-> 2, code |-> c,
           reboot |-> r] : a \in SUBSET UpdateIds, c \in PlatformCodes, r \in BOOLEAN}

\* the install exec settles; on resolve updateDrivers runs on to await fs.unlink
ExecDone(p, x, msg) ==
    /\ pc[p] = "exec"
    /\ \/ x.how = "timeout"
       \/ x.how = "exited" /\ child[p].state \in {"loaded", "nofile"}
    /\ LET ids == driverIds[p]
           run == RunScript(child[p].target, x.avail, x.searchThrows, x.dl, x.code, x.reboot)
           ran == x.how = "exited" /\ child[p].state = "loaded"
           exit == IF ran THEN run.exit ELSE 1
       IN  /\ obs' = [obs EXCEPT ![p] =
                         IF ran
                         THEN [@ EXCEPT !.searched = run.searched, !.available = run.available,
                                        !.handed = run.handed, !.target = run.target,
                                        !.installed = run.installed, !.code = run.ResultCode,
                                        !.reboot = run.RebootRequired,
                                        !.execOutcome = "exited"]
                         ELSE [@ EXCEPT !.execOutcome =
                                           IF x.how = "timeout" THEN "timeout" ELSE "nofile"]]
           /\ IF x.how = "timeout" \/ ExecRejects(exit)
              THEN /\ Catch(p, results[p], ids, msg)
                   /\ UNCHANGED stdout
              ELSE /\ stdout' = [stdout EXCEPT ![p] =
                                    [hasJson |-> run.hasJson, ResultCode |-> run.ResultCode,
                                     RebootRequired |-> run.RebootRequired]]
                   /\ pc' = [pc EXCEPT ![p] = NextStage("exec")]
                   /\ UNCHANGED <<ret, results>>
    /\ child' = [child EXCEPT ![p] = NoChild]
    /\ UNCHANGED <<platform, now, fs, driverIds, cb, scriptPath, progress, dvars, svars, xvars, gvars>>

\* a return that leaves the per-id lists of data as they were initialised
InterpretedValue_BareLists(success, res, code) ==
    [NoRet EXCEPT !.kind = "value", !.success = success, !.message = "message",
                  !.hasData = TRUE, !.rebootRequired = res.rebootRequired,
                  !.resultCode = code, !.resultText = ResultText(code)]
\* return { success, data: results, message, resultCode, resultText }
InterpretedValue(success, res, code) ==
    [NoRet EXCEPT !.kind = "value", !.success = success, !.message = "message",
                  !.hasData = TRUE, !.updated = res.updated, !.failed = res.failed,
                  !.rebootRequired = res.rebootRequired,
                  !.resultCode = code, !.resultText = ResultText(code)]

\* try { await fs.unlink(scriptPath) } catch (unlinkError) { console.warn(...) }:
\* whether a failed deletion leaves the inner try as an exception
UnlinkFailureThrows_Surface(ok) == ~ok
UnlinkFailureThrows(ok) == FALSE

\* fs.unlink settles; updateDrivers interprets the result and returns
UnlinkDone(p, ok) ==
    /\ pc[p] = "unlink"
    /\ ok => fs[scriptPath[p]].exists
    /\ fs' = IF ok THEN [fs EXCEPT ![scriptPath[p]] = NoFile] ELSE fs
    /\ obs' = [obs EXCEPT ![p].unlinked = IF ok THEN "ok" ELSE "failed"]
    /\ LET ids == driverIds[p]
           resultCode == InterpretCode(stdout[p])
           success == IsSuccessCode(resultCode)
           res == IF success
                  THEN [results[p] EXCEPT !.updated = ids,
                                          !.rebootRequired = stdout[p].RebootRequired]
                  ELSE [results[p] EXCEPT !.failed = ids]
       IN  IF UnlinkFailureThrows(ok)
           THEN /\ Catch(p, results[p], ids, MsgUnlinkFailed)
                /\ UNCHANGED progress
           ELSE /\ progress' = [progress EXCEPT ![p] = Notify(@, cb[p], Len(ids) + 2, ids)]
                /\ IF CbThrows(cb[p], 3)
                   THEN Catch(p, res, ids, MsgCallback)
                   ELSE Finish(p, InterpretedValue(success, res, resultCode), res)
    /\ UNCHANGED <<platform, now, driverIds, cb, scriptPath, stdout, child, dvars, svars, xvars, gvars>>

\* Date.now() advances
Tick ==
    /\ now < MaxClock
    /\ now' = now + 1
    /\ UNCHANGED <<platform, fs, ivars, dvars, svars, xvars, gvars>>


(* ------------------------- detection: raw output ----------------------- *)
\* stdout of a detection method: nothing, the text null, one JSON object, a JSON
\* array, or text that is not JSON; pad = followed by a line break
RawOutputs ==
    {[body |-> b, items |-> <<>>, pad |-> w] :
        b \in {"empty", "null", "garbage"}, w \in BOOLEAN}
    \cup {[body |-> "object", items |-> <<u>>, pad |-> w] : u \in UpdateIds, w \in BOOLEAN}
    \cup {[body |-> "array", items |-> l, pad |-> w] :
             l \in SeqsUpTo(UpdateIds, MaxList), w \in BOOLEAN}

\* String.prototype.trim
Trim(raw) == [raw EXCEPT !.pad = FALSE]
\* a string is falsy exactly when it has no characters
IsEmptyString(raw) == raw.body = "empty" /\ ~raw.pad
IsNullText(raw) == raw.body = "null" /\ ~raw.pad
EmptyArrayText == [body |-> "array", items |-> <<>>, pad |-> FALSE]

\* the element JSON.parse('null') puts in [parsed]
NullItem == "<null>"

\* JSON.parse: a SyntaxError on empty, blank or non-JSON text; surrounding white
\* space is otherwise ignored
JSONParse(raw) ==
    CASE raw.body \in {"empty", "garbage"} ->
            [threw |-> TRUE, isArray |-> FALSE, isNull |-> FALSE, items |-> <<>>]
      [] raw.body = "null" ->
            [threw |-> FALSE, isArray |-> FALSE, isNull |-> TRUE, items |-> <<>>]
      [] raw.body = "object" ->
            [threw |-> FALSE, isArray |-> FALSE, isNull |-> FALSE, items |-> raw.items]
      [] raw.body = "array" ->
            [threw |-> FALSE, isArray |-> TRUE, isNull |-> FALSE, items |-> raw.items]

\* Array.isArray(parsed) ? parsed : [parsed]
AsArray(parsed) ==
    IF parsed.isArray THEN parsed.items
    ELSE IF parsed.isNull THEN <<NullItem>>
    ELSE parsed.items

(* -------------------------- checkDriverUpdates ------------------------- *)
\* detection methods of DRIVER_UPDATE_GUIDE.md, in order of priority
DetectionMethods == <<"PSWindowsUpdate", "ComApi", "WmiDevices">>
DetectCallbacks == {"none", "ok", "throw0"}

NoDRet == [kind |-> "none", success |-> FALSE, error |-> NoText, driversFound |-> 0,
           drivers |-> <<>>]
NoDObs == [spawned |-> 0, tried |-> {}, raw |-> EmptyArrayText, resolved |-> FALSE,
           notified |-> 0, cb |-> "none"]

\* let drivers = []; try { ... JSON.parse ... } catch (parseError) { console.error }
ParseDriverList(raw) ==
    LET jsonOutput == Trim(raw)
    IN  IF ~IsEmptyString(jsonOutput) /\ ~IsNullText(jsonOutput)
        THEN LET parsed == JSONParse(jsonOutput)
             IN  IF parsed.threw THEN <<>> ELSE AsArray(parsed)
        ELSE <<>>

\* return { success: true, driversFound, drivers, message }
DriverListValue(drivers) ==
    [kind |-> "value", success |-> TRUE, error |-> NoText, driversFound |-> Len(drivers),
     drivers |-> drivers]

\* catch (error) { return { success: false, error: error.message, drivers: [] } }
DriverCheckFailure(msg) ==
    [kind |-> "value", success |-> FALSE, error |-> msg, driversFound |-> 0, drivers |-> <<>>]

\* checkDriverUpdates up to its await
CheckDriverUpdatesCall(c) ==
    /\ dpc = "idle"
    /\ IF ~IsWindows(platform)
       THEN /\ dret' = [NoDRet EXCEPT !.kind = "throw", !.error = MsgNotWindows]
            /\ dpc' = "done"
            /\ dobs' = NoDObs
       ELSE IF c = "throw0"
       THEN /\ dret' = [NoDRet EXCEPT !.kind = "throw", !.error = MsgCallback]
            /\ dpc' = "done"
            /\ dobs' = [NoDObs EXCEPT !.notified = 1, !.cb = c]
       ELSE /\ dret' = NoDRet
            /\ dpc' = "exec"
            /\ dobs' = [NoDObs EXCEPT !.spawned = 1, !.tried = {"ComApi"}, !.cb = c,
                                      !.notified = IF c = "none" THEN 0 ELSE 1]
    /\ UNCHANGED <<platform, now, fs, ivars, lastSession, svars, xvars>>

\* the detection exec settles and checkDriverUpdates returns
CheckDriverUpdatesDone(resolved, raw, msg) ==
    /\ dpc = "exec"
    /\ dpc' = "done"
    /\ dobs' = [dobs EXCEPT !.raw = raw, !.resolved = resolved]
    /\ dret' = IF resolved THEN DriverListValue(ParseDriverList(raw))
               ELSE DriverCheckFailure(msg)
    /\ lastSession' = Range(dret'.drivers)
    /\ UNCHANGED <<platform, now, fs, ivars, svars, xvars, gvars>>

\* the caller has taken the detection result
CheckDriverUpdatesReturn ==
    /\ dpc = "done"
    /\ dpc' = "idle"
    /\ dret' = NoDRet
    /\ dobs' = NoDObs
    /\ UNCHANGED <<platform, now, fs, ivars, lastSession, svars, xvars>>

(* -------------------------- checkSystemUpdates ------------------------- *)
MsgUnsupported == "System updates not supported on this platform"
MsgSyntaxError == "SyntaxError: Unexpected token"
SystemCallbacks == {"none", "ok", "throw0", "throw1"}

NoSRet == [kind |-> "none", success |-> FALSE, error |-> NoText, hasData |-> FALSE,
           available |-> FALSE, count |-> 0, updates |-> <<>>]
NoMacOutput == [noNew |-> TRUE, stars |-> <<>>]
NoSObs == [spawned |-> 0, cb |-> "none", notified |-> 0, resolved |-> FALSE,
           raw |-> EmptyArrayText, out |-> NoMacOutput]

\* softwareupdate -l: whether it prints 'No new software available', and the
\* titles of its lines that start with *
MacOutputs ==
    {[noNew |-> n, stars |-> l] : n \in BOOLEAN, l \in SeqsUpTo(UpdateIds, MaxList)}

\* parseUpdateList(stdout)
parseUpdateList(out) == out.stars

\* return { success: true, data: { available, count, updates, message } }
SystemListValue(available, updates) ==
    [kind |-> "value", success |-> TRUE, error |-> NoText, hasData |-> TRUE,
     available |-> available, count |-> Len(updates), updates |-> updates]

\* return { success: false, error }
SystemFailure(msg) == [NoSRet EXCEPT !.kind = "value", !.error = msg]

SystemCheckCatch_Absent(msg) == [NoSRet EXCEPT !.kind = "throw", !.error = msg]
\* checkSystemUpdates: try { return await check...(progressCallback) }
\* catch (error) { return { success: false, error: error.message } }
SystemCheckCatch(msg) == SystemFailure(msg)

\* JSON.parse(stdout || '[]')
ParseSystemList(raw) == JSONParse(IF IsEmptyString(raw) THEN EmptyArrayText ELSE raw)

\* checkSystemUpdates -> checkMacOSUpdates / checkWindowsUpdates, up to the await
CheckSystemUpdatesCall(c) ==
    /\ spc = "idle"
    /\ IF platform \notin {"darwin", "win32"}
       THEN /\ sret' = SystemFailure(MsgUnsupported)
            /\ spc' = "done"
            /\ sobs' = NoSObs
       ELSE IF c = "throw0"
       THEN /\ sret' = SystemCheckCatch(MsgCallback)
            /\ spc' = "done"
            /\ sobs' = [NoSObs EXCEPT !.cb = c, !.notified = 1]
       ELSE /\ sret' = NoSRet
            /\ spc' = "exec"
            /\ sobs' = [NoSObs EXCEPT !.cb = c, !.spawned = 1,
                                      !.notified = IF c = "none" THEN 0 ELSE 1]
    /\ UNCHANGED <<platform, now, fs, ivars, dvars, xvars, gvars>>

\* checkMacOSUpdates after its await
MacOSCheckValue(c, resolved, out, msg) ==
    IF ~resolved THEN SystemFailure(msg)
    ELSE IF c = "throw1" THEN SystemFailure(MsgCallback)
    ELSE IF ~out.noNew THEN SystemListValue(TRUE, parseUpdateList(out))
    ELSE SystemListValue(FALSE, <<>>)

\* checkWindowsUpdates after its await
WindowsCheckValue(c, resolved, raw, msg) ==
    IF ~resolved THEN SystemFailure(msg)
    ELSE LET updates == ParseSystemList(raw)
         IN  IF updates.threw THEN SystemFailure("SyntaxError: Unexpected token")
             ELSE IF c = "throw1" THEN SystemFailure(MsgCallback)
             ELSE SystemListValue(Len(AsArray(updates)) > 0, AsArray(updates))

\* the system check exec settles and checkSystemUpdates returns
CheckSystemUpdatesDone(resolved, raw, out, msg) ==
    /\ spc = "exec"
    /\ spc' = "done"
    /\ sret' = IF platform = "darwin" THEN MacOSCheckValue(sobs.cb, resolved, out, msg)
               ELSE WindowsCheckValue(sobs.cb, resolved, raw, msg)
    /\ sobs' = [sobs EXCEPT !.resolved = resolved,
                            !.raw = IF platform = "win32" THEN raw ELSE EmptyArrayText,
                            !.out = IF platform = "darwin" /\ resolved THEN out ELSE NoMacOutput,
                            !.notified =
                                IF resolved /\ sobs.cb # "none" /\ sret'.error # MsgSyntaxError
                                THEN @ + 1 ELSE @]
    /\ UNCHANGED <<platform, now, fs, ivars, dvars, xvars, gvars>>

\* the caller has taken the system check result
CheckSystemUpdatesReturn ==
    /\ spc = "done"
    /\ spc' = "idle"
    /\ sret' = NoSRet
    /\ sobs' = NoSObs
    /\ UNCHANGED <<platform, now, fs, ivars, dvars, xvars, gvars>>

(* --------------------------- checkWindowsUpdate ------------------------ *)
MaxStarts == 1

\* what the wuauserv service can be on the host
ServiceStates == {"running", "stopped", "disabled", "absent"}

MsgScFailed == "Command failed: sc query wuauserv"
ReasonNotWindows == "Not Windows"
ReasonRunning == "Windows Update service is running"
ReasonNotRunning == "Windows Update service is not running"
ReasonUnable == "Unable to check Windows Update service: "

MsgSpawnFailed == "spawn cmd.exe ENOENT"

\* how the probe process ends: it exits by itself, exec kills it at 5000 ms, or
\* it could not be spawned
ProbeEnds == {"exited", "timeout", "spawnerror"}

\* error.message of the rejected probe
ProbeMessage(end) == IF end = "spawnerror" THEN MsgSpawnFailed ELSE MsgScFailed

\* sc query wuauserv run to its end: exit code and the STATE line it prints; a
\* disabled service is a stopped one, a missing one makes sc exit with 1060
ScQuery(svc) ==
    [exit |-> IF svc = "absent" THEN 1060 ELSE 0,
     state |-> CASE svc = "running" -> "RUNNING"
                 [] svc \in {"stopped", "disabled"} -> "STOPPED"
                 [] OTHER -> ""]

\* stdout.includes('RUNNING')
IsRunningOutput_AnyState(out) == out.state # ""
IsRunningOutput(out) == out.state = "RUNNING"

NoWRet == [kind |-> "none", available |-> FALSE, reason |-> NoText, detail |-> NoText]
NoWObs == [spawned |-> 0, probe |-> "none", resolved |-> FALSE, state |-> ""]

\* return { available: false, reason: 'Not Windows' }
NotWindowsValue == [NoWRet EXCEPT !.kind = "value", !.reason = ReasonNotWindows]

\* return { available: isRunning, reason: isRunning ? ... : ... }
ServiceStatusValue(isRunning) ==
    [NoWRet EXCEPT !.kind = "value", !.available = isRunning,
                   !.reason = IF isRunning THEN ReasonRunning ELSE ReasonNotRunning]

\* return { available: false, reason: 'Unable to check ...: ' + error.message }
ServiceCheckFailure(msg) ==
    [NoWRet EXCEPT !.kind = "value", !.reason = ReasonUnable, !.detail = msg]

\* whether checkWindowsUpdate follows its probe with a command that starts the
\* service: the function ends with the return of the status
StartsService_WhenNotRunning(isRunning) == ~isRunning
StartsService(isRunning) == FALSE

\* the try/catch of checkWindowsUpdate: the value returned for a service in
\* state svc when the probe ends as end
ServiceQueryValue(svc, end) ==
    LET out == ScQuery(svc)
    IN  IF end = "exited" /\ ~ExecRejects(out.exit)
        THEN ServiceStatusValue(IsRunningOutput(out))
        ELSE ServiceCheckFailure(ProbeMessage(end))

\* checkWindowsUpdate up to its await
CheckWindowsUpdateCall ==
    /\ wpc = "idle"
    /\ IF ~IsWindows(platform)
       THEN /\ wret' = NotWindowsValue
            /\ wpc' = "done"
            /\ wobs' = NoWObs
       ELSE /\ wret' = NoWRet
            /\ wpc' = "exec"
            /\ wobs' = [NoWObs EXCEPT !.spawned = 1]
    /\ UNCHANGED <<platform, now, fs, ivars, dvars, svars, service, starts, uvars, informational, vvars, gvars>>

\* the probe settles and checkWindowsUpdate returns
CheckWindowsUpdateDone(end) ==
    /\ wpc = "exec"
    /\ wpc' = "done"
    /\ LET out == ScQuery(service)
           resolved == end = "exited" /\ ~ExecRejects(out.exit)
           isRunning == IsRunningOutput(out)
           started == resolved /\ StartsService(isRunning) /\ starts < MaxStarts
       IN  /\ wret' = ServiceQueryValue(service, end)
           /\ wobs' = [wobs EXCEPT !.probe = end, !.resolved = resolved,
                                   !.state = IF resolved THEN out.state ELSE ""]
           /\ starts' = IF started THEN starts + 1 ELSE starts
           /\ service' = IF started /\ service = "stopped" THEN "running" ELSE service
    /\ UNCHANGED <<platform, now, fs, ivars, dvars, svars, uvars, informational, vvars, gvars>>

\* the caller has taken the service status
CheckWindowsUpdateReturn ==
    /\ wpc = "done"
    /\ wpc' = "idle"
    /\ wret' = NoWRet
    /\ wobs' = NoWObs
    /\ UNCHANGED <<platform, now, fs, ivars, dvars, svars, service, starts, uvars, informational, vvars, gvars>>

(* -------------------------- installSystemUpdates ----------------------- *)
SystemInstallCallbacks == {"none", "ok", "throw0", "throw1", "throw2"}

NoURet == [kind |-> "none", success |-> FALSE, error |-> NoText, hasData |-> FALSE,
           installed |-> FALSE, requiresRestart |-> FALSE]
NoUObs == [spawned |-> 0, cb |-> "none", notified |-> 0, resolved |-> FALSE,
           code |-> NoCode, restart |-> FALSE, selected |-> {}, applied |-> {}]

\* what the install command did: the updates the platform had pending, the
\* result code that ends the PowerShell output (none for 'No updates to
\* install'), and whether the platform asks for
\* a restart (softwareupdate prints it, the Windows installer reports it in
\* InstallResult.RebootRequired)
InstallOutputs ==
       {[code |-> NoCode, restart |-> r, avail |-> {}] : r \in BOOLEAN}
    \cup {[code |-> c, restart |-> r, avail |-> a] :
              c \in PlatformCodes, r \in BOOLEAN, a \in SUBSET UpdateIds \ {{}}}

\* softwareupdate -i -a installs all recommended updates; the Windows script adds
\* every update of the search result to $UpdatesToInstall
SystemInstallTargets(selected, avail) == avail

\* the updates an install run has applied to the machine
SystemApplied(pf, selected, out) ==
    IF pf = "darwin" \/ IsSuccessCode(out.code)
    THEN SystemInstallTargets(selected, out.avail)
    ELSE {}

\* if (platform === 'darwin') ... else if (platform === 'win32') ... else
HasSystemStrategy(pf) == pf \in {"darwin", "win32"}

\* return { success: true, data: { installed: true, requiresRestart, message } }
SystemInstallValue(requiresRestart) ==
    [kind |-> "value", success |-> TRUE, error |-> NoText, hasData |-> TRUE,
     installed |-> TRUE, requiresRestart |-> requiresRestart]

\* return { success: false, error }
SystemInstallFailure(msg) == [NoURet EXCEPT !.kind = "value", !.error = msg]

\* installSystemUpdates -> installMacOSUpdates / installWindowsUpdates, up to the await
\* sel: the updates the caller has chosen among the ones a check listed;
\* installSystemUpdates(progressCallback) has no parameter for them
InstallSystemUpdatesCall(c, sel) ==
    /\ upc = "idle"
    /\ IF ~HasSystemStrategy(platform)
       THEN /\ uret' = SystemInstallFailure(MsgUnsupported)
            /\ upc' = "done"
            /\ uobs' = [NoUObs EXCEPT !.selected = sel]
       ELSE IF c \in {"throw0", "throw1"}
       THEN /\ uret' = SystemInstallFailure(MsgCallback)
            /\ upc' = "done"
            /\ uobs' = [NoUObs EXCEPT !.cb = c, !.selected = sel,
                                      !.notified = IF c = "throw0" THEN 1 ELSE 2]
       ELSE /\ uret' = NoURet
            /\ upc' = "exec"
            /\ uobs' = [NoUObs EXCEPT !.cb = c, !.spawned = 1, !.selected = sel,
                                      !.notified = IF c = "none" THEN 0 ELSE 2]
    /\ UNCHANGED <<platform, now, fs, ivars, dvars, svars, wvars, informational, vvars, gvars>>

\* installMacOSUpdates / installWindowsUpdates after the await
SystemInstallResult(pf, c, resolved, out, msg) ==
    IF ~resolved THEN SystemInstallFailure(msg)
    ELSE IF c = "throw2" THEN SystemInstallFailure(MsgCallback)
    ELSE IF pf = "darwin" THEN SystemInstallValue(out.restart)
    ELSE SystemInstallValue(out.code = 3)

\* the install exec settles and installSystemUpdates returns
InstallSystemUpdatesDone(resolved, out, msg) ==
    /\ upc = "exec"
    /\ upc' = "done"
    /\ uret' = SystemInstallResult(platform, uobs.cb, resolved, out, msg)
    /\ uobs' = [uobs EXCEPT !.resolved = resolved,
                            !.code = IF resolved /\ platform = "win32" THEN out.code ELSE NoCode,
                            !.restart = resolved /\ out.restart,
                            !.applied = IF resolved
                                        THEN SystemApplied(platform, uobs.selected, out)
                                        ELSE {},
                            !.notified = IF resolved /\ uobs.cb # "none" THEN @ + 1 ELSE @]
    /\ UNCHANGED <<platform, now, fs, ivars, dvars, svars, wvars, informational, vvars, gvars>>

\* the caller has taken the system install result
InstallSystemUpdatesReturn ==
    /\ upc = "done"
    /\ upc' = "idle"
    /\ uret' = NoURet
    /\ uobs' = NoUObs
    /\ UNCHANGED <<platform, now, fs, ivars, dvars, svars, wvars, informational, vvars, gvars>>

(* ---------------------- updateDrivers of part_001 ---------------------- *)
\* progressCallback: absent, well behaved, throwing at the first or second call
VariantCallbacks == {"none", "ok", "throw0", "throw1"}

NoVRet == [kind |-> "none", success |-> FALSE, error |-> NoText, hasData |-> FALSE,
           updated |-> <<>>, failed |-> <<>>, rebootRequired |-> FALSE]
NoVObs == [ids |-> <<>>, cb |-> "none", spawned |-> 0, outcome |-> "none", applied |-> {}]

\* what Start-Process -Verb RunAs -Wait did: elevation was refused, the outer
\* shell was killed at 300000 ms, or the elevated script ran against some search
\* result, download result and install result
VariantRuns ==
       {[how |-> h, avail |-> {}, dl |-> 2, code |-> 0] : h \in {"denied", "timeout"}}
    \cup {[how |-> "exited", avail |-> a, dl |-> d, code |-> c] :
              a \in SUBSET UpdateIds, d \in {2, 4}, c \in PlatformCodes}

\* foreach ($Update in $SearchResult.Updates) { $UpdatesToInstall.Add($Update) }
VariantTargets(ids, avail) == avail

\* the driver updates the elevated script has installed
VariantApplied(ids, x) ==
    IF x.how = "exited" /\ x.dl = 2 /\ IsSuccessCode(x.code)
    THEN VariantTargets(ids, x.avail)
    ELSE {}

\* the outer shell exits 0 once Start-Process has returned, whatever the exit
\* code of the elevated script
VariantExecRejects(x) == x.how # "exited"

\* return { success: true, data: results, message }; the output of the elevated
\* window is not in stdout, so 'Reboot Required: True' is never found
VariantValue(ids) ==
    [NoVRet EXCEPT !.kind = "value", !.success = TRUE, !.hasData = TRUE, !.updated = ids]

\* catch: results.failed = driverIds; return { success: false, error, data }
VariantFailure(ids, msg) ==
    [NoVRet EXCEPT !.kind = "value", !.error = msg, !.hasData = TRUE, !.failed = ids]

\* updateDrivers of part_001 up to its await
VariantUpdateDriversCall(ids, c) ==
    /\ vpc = "idle"
    /\ IF ~IsWindows(platform)
       THEN /\ vret' = [NoVRet EXCEPT !.kind = "throw", !.error = MsgNotWindows]
            /\ vpc' = "done"
            /\ vobs' = [NoVObs EXCEPT !.ids = ids, !.cb = c]
       ELSE IF c = "throw0"
       THEN /\ vret' = VariantFailure(ids, MsgCallback)
            /\ vpc' = "done"
            /\ vobs' = [NoVObs EXCEPT !.ids = ids, !.cb = c]
       ELSE /\ vret' = NoVRet
            /\ vpc' = "exec"
            /\ vobs' = [NoVObs EXCEPT !.ids = ids, !.cb = c, !.spawned = 1]
    /\ UNCHANGED <<platform, now, fs, ivars, dvars, svars, wvars, uvars, informational, gvars>>

\* the exec settles and updateDrivers of part_001 returns
VariantUpdateDriversDone(x, msg) ==
    /\ vpc = "exec"
    /\ vpc' = "done"
    /\ vobs' = [vobs EXCEPT !.outcome = x.how, !.applied = VariantApplied(vobs.ids, x)]
    /\ vret' = IF VariantExecRejects(x) THEN VariantFailure(vobs.ids, msg)
               ELSE IF vobs.cb = "throw1" THEN VariantFailure(vobs.ids, MsgCallback)
               ELSE VariantValue(vobs.ids)
    /\ UNCHANGED <<platform, now, fs, ivars, dvars, svars, wvars, uvars, informational, gvars>>

\* the caller has taken the result
VariantUpdateDriversReturn ==
    /\ vpc = "done"
    /\ vpc' = "idle"
    /\ vret' = NoVRet
    /\ vobs' = NoVObs
    /\ UNCHANGED <<platform, now, fs, ivars, dvars, svars, wvars, uvars, informational, gvars>>

(* --------------------------- specifications ---------------------------- *)
InitHost ==
    /\ platform \in Platforms
    /\ now = 0
    /\ fs = [f \in Paths |-> NoFile]
    /\ pc = [p \in Procs |-> "idle"]
    /\ driverIds = [p \in Procs |-> <<>>]
    /\ cb = [p \in Procs |-> "none"]
    /\ scriptPath = [p \in Procs |-> NoPath]
    /\ results = [p \in Procs |-> EmptyResults]
    /\ stdout = [p \in Procs |-> NoStdout]
    /\ child = [p \in Procs |-> NoChild]
    /\ ret = [p \in Procs |-> NoRet]
    /\ progress = [p \in Procs |-> <<>>]
    /\ obs = [p \in Procs |-> NoObs]
    /\ dpc = "idle"
    /\ dret = NoDRet
    /\ dobs = NoDObs
    /\ lastSession = {}
    /\ spc = "idle"
    /\ sret = NoSRet
    /\ sobs = NoSObs
    /\ starts = 0
    /\ wpc = "idle"
    /\ wret = NoWRet
    /\ wobs = NoWObs
    /\ upc = "idle"
    /\ uret = NoURet
    /\ uobs = NoUObs
    /\ informational = {}
    /\ vpc = "idle"
    /\ vret = NoVRet
    /\ vobs = NoVObs
    /\ isChecking = FALSE
    /\ isUpdating = FALSE
    /\ viewDrivers = <<>>
    /\ selectedDrivers = <<>>

\* a Windows host whose update service runs, or a host that has no such service
Init == InitHost /\ service = IF platform = "win32" THEN "running" ELSE "absent"

\* a Windows host with the update service in any state
InitService == InitHost /\ service \in ServiceStates /\ (platform # "win32" => service = "absent")

\* no invocation of the driver install lane is pending
LaneIdle == \A q \in Procs : pc[q] = "idle"
\* the caller has nothing pending at all
AllIdle ==
    LaneIdle /\ dpc = "idle" /\ spc = "idle" /\ wpc = "idle" /\ upc = "idle" /\ vpc = "idle"

ExecMessages == {MsgCmdFailed, MsgCmdFailedWU}

CallSeq == \E p \in Procs, ids \in Requests, c \in Callbacks :
               AllIdle /\ UpdateDriversCall(p, ids, c) /\ UNCHANGED gvars
RestoreStep == \E p \in Procs, out \in RestoreOutcomes : RestorePointDone(p, out)
WriteStep == \E p \in Procs, ok \in BOOLEAN : WriteFileDone(p, ok)
LoadStep == \E p \in Procs : ScriptLoad(p)
ExecStep == \E p \in Procs, x \in ScriptRuns, msg \in ExecMessages : ExecDone(p, x, msg)
UnlinkStep == \E p \in Procs, ok \in BOOLEAN : UnlinkDone(p, ok)

DetectCall == \E c \in DetectCallbacks :
                  AllIdle /\ CheckDriverUpdatesCall(c) /\ UNCHANGED gvars
DetectDone ==
    \/ \E raw \in RawOutputs : CheckDriverUpdatesDone(TRUE, raw, MsgCmdFailed)
    \/ \E msg \in ExecMessages : CheckDriverUpdatesDone(FALSE, EmptyArrayText, msg)
DetectReturn == CheckDriverUpdatesReturn /\ UNCHANGED gvars

SystemCall == \E c \in SystemCallbacks : AllIdle /\ CheckSystemUpdatesCall(c)
SystemDone ==
    \/ \E raw \in RawOutputs, out \in MacOutputs :
          CheckSystemUpdatesDone(TRUE, raw, out, MsgCmdFailed)
    \/ \E msg \in ExecMessages :
          CheckSystemUpdatesDone(FALSE, EmptyArrayText, [noNew |-> TRUE, stars |-> <<>>], msg)
SystemReturn == CheckSystemUpdatesReturn

ServiceCall == AllIdle /\ CheckWindowsUpdateCall
ServiceDone == \E end \in ProbeEnds : CheckWindowsUpdateDone(end)
ServiceReturn == CheckWindowsUpdateReturn

InstallCall == \E c \in SystemInstallCallbacks, sel \in SUBSET UpdateIds :
                   AllIdle /\ InstallSystemUpdatesCall(c, sel)
InstallDone ==
    \/ \E out \in InstallOutputs : InstallSystemUpdatesDone(TRUE, out, MsgCmdFailed)
    \/ \E msg \in ExecMessages :
          InstallSystemUpdatesDone(FALSE, [code |-> NoCode, restart |-> FALSE, avail |-> {}], msg)
InstallReturn == InstallSystemUpdatesReturn

VariantCall == \E ids \in Requests, c \in VariantCallbacks :
                   AllIdle /\ VariantUpdateDriversCall(ids, c)
VariantDone == \E x \in VariantRuns : VariantUpdateDriversDone(x, MsgCmdFailed)
VariantReturn == VariantUpdateDriversReturn

\* one caller: detections and system checks one at a time, then one install request
Next ==
    \/ DetectCall
    \/ DetectDone
    \/ DetectReturn
    \/ SystemCall
    \/ SystemDone
    \/ SystemReturn
    \/ ServiceCall
    \/ ServiceDone
    \/ ServiceReturn
    \/ InstallCall
    \/ InstallDone
    \/ InstallReturn
    \/ VariantCall
    \/ VariantDone
    \/ VariantReturn
    \/ CallSeq
    \/ RestoreStep
    \/ WriteStep
    \/ LoadStep
    \/ ExecStep
    \/ UnlinkStep

Spec == Init /\ [][Next]_vars

\* requests of the overlapping callers: one id each, or both ids at once
ConcRequests == {ids \in Requests : Len(ids) = 1} \cup {<<"A", "B">>}

\* the external behaviours explored for them: no, one or every update on offer,
\* no reboot
ConcRuns ==
    {x \in ScriptRuns : x.avail \in {{}, {"A"}, UpdateIds} /\ x.code \in {0, 2} /\ ~x.reboot}

\* their callbacks: none, or one that returns normally
ConcCallbacks == {"none", "ok"}

\* no invocation of another operation is pending
OthersIdle == dpc = "idle" /\ spc = "idle" /\ wpc = "idle" /\ upc = "idle"

CallConc == \E p \in Procs, ids \in ConcRequests, c \in ConcCallbacks :
                OthersIdle /\ UpdateDriversCall(p, ids, c) /\ UNCHANGED gvars
ExecConc == \E p \in Procs, x \in ConcRuns : ExecDone(p, x, MsgCmdFailed)

InitConc == Init

\* two callers of updateDrivers that do not wait for each other, or one call of
\* another operation
NextConc ==
    \/ CallConc
    \/ RestoreStep
    \/ WriteStep
    \/ LoadStep
    \/ ExecConc
    \/ UnlinkStep
    \/ Tick
    \/ DetectCall
    \/ DetectDone
    \/ SystemCall
    \/ SystemDone
    \/ InstallCall
    \/ InstallDone

SpecConc == InitConc /\ [][NextConc]_vars

\* the view keeps the service status it queried while it checks for drivers
QueryCall == dpc = "idle" /\ CheckWindowsUpdateCall
QueryReturn == dpc = "idle" /\ CheckWindowsUpdateReturn
DetectHeld == \E c \in DetectCallbacks :
                  wpc \in {"idle", "done"} /\ CheckDriverUpdatesCall(c) /\ UNCHANGED gvars

\* service queries and driver detections under every state of the service
NextService ==
    \/ QueryCall
    \/ ServiceDone
    \/ QueryReturn
    \/ DetectHeld
    \/ DetectDone
    \/ DetectReturn

SpecService == InitService /\ [][NextService]_vars

\* device enumeration, the method that can list problem devices but not install
\* for them: every candidate it returns is marked informationalOnly
DeviceEnumeration(found) ==
    /\ IsWindows(platform)
    /\ informational = {}
    /\ found # {}
    /\ informational' = found
    /\ UNCHANGED <<platform, now, fs, ivars, dvars, svars, wvars, uvars, vvars, gvars>>

EnumerateStep == \E found \in SUBSET UpdateIds : AllIdle /\ DeviceEnumeration(found)

\* one caller: a device enumeration, then one install request
NextInfo ==
    \/ EnumerateStep
    \/ CallSeq
    \/ RestoreStep
    \/ WriteStep
    \/ LoadStep
    \/ ExecStep
    \/ UnlinkStep

SpecInfo == Init /\ [][NextInfo]_vars

\* an id as a caller may pass it: a string that closes the PowerShell string
\* literal it is put into and continues with script text
QuoteId == "A\"); Start-Process calc; @(\""
CallerIds == UpdateIds \cup {QuoteId}
\* the characters of an update id (a GUID) cannot end a string literal
HasMetachar(id) == id = QuoteId

\* requests of a caller that is not bound to the ids of a detection result
RawRequests == {<<id>> : id \in CallerIds}

CallRaw == \E p \in Procs, ids \in RawRequests, c \in Callbacks :
               AllIdle /\ UpdateDriversCall(p, ids, c) /\ UNCHANGED gvars

NextRaw ==
    \/ CallRaw
    \/ RestoreStep
    \/ WriteStep
    \/ LoadStep
    \/ ExecStep
    \/ UnlinkStep

SpecRaw == Init /\ [][NextRaw]_vars

\* the timeout option of the exec call of each detection operation, in ms;
\* NoTimeout where exec is called without one
NoTimeout == 0
ExecTimeout(op) ==
    CASE op = "checkDriverUpdates" -> 60000
      [] op = "checkMacOSUpdates" -> NoTimeout
      [] op = "checkWindowsUpdates" -> NoTimeout

\* exec's timer expires: the child is killed and the promise rejects
TimerFires(lane) ==
    IF lane = "detect"
    THEN /\ ExecTimeout("checkDriverUpdates") # NoTimeout
         /\ CheckDriverUpdatesDone(FALSE, EmptyArrayText, MsgCmdFailed)
    ELSE /\ ExecTimeout(IF platform = "darwin" THEN "checkMacOSUpdates"
                        ELSE "checkWindowsUpdates") # NoTimeout
         /\ CheckSystemUpdatesDone(FALSE, EmptyArrayText, NoMacOutput, MsgCmdFailed)

TimeoutStep == \E lane \in {"detect", "system"} : TimerFires(lane)

\* detections whose external process may never exit: the process ends only if
\* it chooses to, the timers of exec always run
NextLive ==
    \/ DetectCall
    \/ DetectDone
    \/ DetectReturn
    \/ SystemCall
    \/ SystemDone
    \/ SystemReturn
    \/ TimeoutStep

SpecLive == Init /\ [][NextLive]_vars /\ WF_vars(TimeoutStep)

(* -------------------------- DriverUpdater view ------------------------- *)
\* new Set(list), in insertion order
RECURSIVE SetFrom(_)
SetFrom(l) ==
    IF l = <<>> THEN <<>>
    ELSE LET r == SetFrom(SubSeq(l, 1, Len(l) - 1))
         IN  IF l[Len(l)] \in Range(r) THEN r ELSE Append(r, l[Len(l)])

\* newSelected.has(id) ? newSelected.delete(id) : newSelected.add(id)
Toggled(sel, id) ==
    IF id \in Range(sel) THEN SelectSeq(sel, LAMBDA x : x # id) ELSE Append(sel, id)

\* drivers.filter(d => !selectedDrivers.has(d.UpdateID))
Remaining(list, sel) == SelectSeq(list, LAMBDA x : x \notin Range(sel))

\* if (!isWindows) return <unavailable card>
CardShown == platform = "win32"
\* check button: disabled={isChecking || isUpdating}
CheckButtonEnabled == ~(isChecking \/ isUpdating)
\* {drivers.length > 0 && (<div className="drivers-section"> ...
DriversSectionShown == Len(viewDrivers) > 0
UpdateButtonEnabled_WhileUpdating == ~(Len(selectedDrivers) = 0)
\* update button: disabled={isUpdating || selectedDrivers.size === 0}
UpdateButtonEnabled == ~(isUpdating \/ Len(selectedDrivers) = 0)
\* select buttons: disabled={isUpdating}
SelectButtonsEnabled == ~isUpdating

\* the invocation slots of the main process that the view's next call would use
FreeProc(p) == pc[p] = "idle" /\ \A q \in Procs : q < p => pc[q] # "idle"

\* handleCheckDrivers up to its await
handleCheckDrivers ==
    /\ CardShown /\ CheckButtonEnabled
    /\ isChecking' = TRUE
    /\ viewDrivers' = <<>>
    /\ selectedDrivers' = <<>>
    /\ UNCHANGED isUpdating
    /\ CheckDriverUpdatesCall("ok")

\* handleCheckDrivers after its await: the result branches and the finally block
checkDriversSettled ==
    /\ isChecking
    /\ dpc = "done"
    /\ IF dret.kind = "value" /\ dret.success
       THEN /\ viewDrivers' = dret.drivers
            /\ selectedDrivers' = IF Len(dret.drivers) > 0 THEN SetFrom(dret.drivers)
                                  ELSE selectedDrivers
       ELSE UNCHANGED <<viewDrivers, selectedDrivers>>
    /\ isChecking' = FALSE
    /\ UNCHANGED isUpdating
    /\ CheckDriverUpdatesReturn

\* a click on a row of the list
toggleDriverSelection(driverId) ==
    /\ CardShown /\ DriversSectionShown
    /\ driverId \in Range(viewDrivers)
    /\ selectedDrivers' = Toggled(selectedDrivers, driverId)
    /\ UNCHANGED <<platform, now, fs, ivars, dvars, svars, xvars,
                   isChecking, isUpdating, viewDrivers>>

selectAllDrivers ==
    /\ CardShown /\ DriversSectionShown /\ SelectButtonsEnabled
    /\ selectedDrivers' = SetFrom(viewDrivers)
    /\ UNCHANGED <<platform, now, fs, ivars, dvars, svars, xvars,
                   isChecking, isUpdating, viewDrivers>>

deselectAllDrivers ==
    /\ CardShown /\ DriversSectionShown /\ SelectButtonsEnabled
    /\ selectedDrivers' = <<>>
    /\ UNCHANGED <<platform, now, fs, ivars, dvars, svars, xvars,
                   isChecking, isUpdating, viewDrivers>>

\* handleUpdateDrivers up to its await, the confirm dialog accepted
handleUpdateDrivers(p) ==
    /\ CardShown /\ DriversSectionShown /\ UpdateButtonEnabled
    /\ Len(selectedDrivers) # 0
    /\ FreeProc(p)
    /\ isUpdating' = TRUE
    /\ UNCHANGED <<isChecking, viewDrivers, selectedDrivers>>
    /\ UpdateDriversCall(p, selectedDrivers, "ok")

\* the invocation is over once its promise has settled
ReleaseInvocation(p) ==
    /\ pc' = [pc EXCEPT ![p] = "idle"]
    /\ driverIds' = [driverIds EXCEPT ![p] = <<>>]
    /\ cb' = [cb EXCEPT ![p] = "none"]
    /\ scriptPath' = [scriptPath EXCEPT ![p] = NoPath]
    /\ results' = [results EXCEPT ![p] = EmptyResults]
    /\ stdout' = [stdout EXCEPT ![p] = NoStdout]
    /\ child' = [child EXCEPT ![p] = NoChild]
    /\ ret' = [ret EXCEPT ![p] = NoRet]
    /\ progress' = [progress EXCEPT ![p] = <<>>]
    /\ obs' = [obs EXCEPT ![p] = NoObs]
    /\ UNCHANGED <<platform, now, fs, dvars, svars, xvars>>

\* handleUpdateDrivers after its await; selectedDrivers is the value the handler
\* closed over, which is the list it sent
updateDriversSettled(p) ==
    /\ isUpdating
    /\ pc[p] = "done"
    /\ IF ret[p].kind = "value" /\ ret[p].success
       THEN /\ viewDrivers' = Remaining(viewDrivers, driverIds[p])
            /\ selectedDrivers' = <<>>
       ELSE UNCHANGED <<viewDrivers, selectedDrivers>>
    /\ isUpdating' = FALSE
    /\ UNCHANGED isChecking
    /\ ReleaseInvocation(p)

CheckClick == handleCheckDrivers
CheckSettled == checkDriversSettled
ToggleClick == \E id \in UpdateIds : toggleDriverSelection(id)
SelectAllClick == selectAllDrivers
DeselectAllClick == deselectAllDrivers
UpdateClick == \E p \in Procs : handleUpdateDrivers(p)
UpdateSettled == \E p \in Procs : updateDriversSettled(p)

\* a user at the DriverUpdater view of a Windows host
NextView ==
    \/ CheckClick
    \/ DetectDone
    \/ CheckSettled
    \/ ToggleClick
    \/ SelectAllClick
    \/ DeselectAllClick
    \/ UpdateClick
    \/ RestoreStep
    \/ WriteStep
    \/ LoadStep
    \/ ExecStep
    \/ UnlinkStep
    \/ UpdateSettled

SpecView == Init /\ [][NextView]_vars


(* ------------------------------ properties ----------------------------- *)
InFlight == {"restore", "write", "exec", "unlink"}

\* C1: whenever the script run by an invocation hands updates to the downloader,
\* the set it hands over is exactly the available updates whose id is among that
\* invocation's driverIds.
C1_TargetIsRequestedSubset ==
    \A p \in Procs :
        obs[p].handed => obs[p].target = obs[p].available \cap Range(driverIds[p])

\* C2: on win32 an invocation with an empty id list has returned the validation
\* failure and has started no process, requested no restore point, written no
\* script and emitted no progress event.
C2_EmptySelectionRejected ==
    \A p \in Procs :
        (platform = "win32" /\ pc[p] # "idle" /\ Len(driverIds[p]) = 0) =>
            /\ pc[p] = "done"
            /\ ret[p].kind = "value" /\ ~ret[p].success /\ ret[p].error = MsgNoIds
            /\ obs[p].spawned = 0 /\ obs[p].restorePoints = 0 /\ ~obs[p].wrote
            /\ progress[p] = <<>>

C2_Witness ==
    \E p \in Procs :
        platform = "win32" /\ pc[p] = "done" /\ Len(driverIds[p]) = 0 /\ ret[p].kind = "value"

\* C3: an invocation that has made an external call (restore point, script
\* execution) requested only ids of the most recent detection result.
C3_UnknownIdRejectedBeforeExternalCall ==
    \A p \in Procs : obs[p].spawned > 0 => Range(driverIds[p]) \subseteq lastSession

\* C4: when the platform reported install result code 2 or 3, updateDrivers has
\* returned success with every requested id in updated and none in failed.
C4_SucceededCodesAreSuccess ==
    \A p \in Procs :
        (pc[p] = "done" /\ obs[p].installed /\ obs[p].code \in {2, 3}) =>
            /\ ret[p].kind = "value" /\ ret[p].success
            /\ ret[p].updated = driverIds[p] /\ ret[p].failed = <<>>

\* C5: when the platform reported an install result code other than 2 and 3,
\* updateDrivers has returned success=false with every requested id in failed and
\* none in updated; a success result implies the code was 2 or 3.
C5_OtherCodesAreFailure ==
    \A p \in Procs :
        /\ (pc[p] = "done" /\ obs[p].installed /\ obs[p].code \notin {2, 3}) =>
               /\ ret[p].kind = "value" /\ ~ret[p].success
               /\ ret[p].failed = driverIds[p] /\ ret[p].updated = <<>>
        /\ (pc[p] = "done" /\ ret[p].success) => obs[p].code \in {2, 3}

C5_Witness ==
    \E p \in Procs :
        /\ pc[p] = "done" /\ obs[p].installed /\ obs[p].code = 0
        /\ ret[p].resultCode = 0 /\ ret[p].failed = <<"A", "B">>

\* C6: once updateDrivers has returned (its progress callback, if any, never
\* having thrown), a script it wrote no longer exists.
C6_ScriptRemovedOnEveryExit ==
    \A p \in Procs :
        (pc[p] = "done" /\ obs[p].wrote /\ cb[p] \in {"none", "ok"}) =>
            ~fs[scriptPath[p]].exists

\* C7: at most one invocation of the lane is between its first and last
\* external step at any time.
C7_NoInterleavingInLane ==
    Cardinality({p \in Procs : pc[p] \in InFlight}) <= 1

\* C8: checkDriverUpdates returns success=false only after every detection
\* method of the priority list has been tried.
C8_FailureOnlyAfterAllMethods ==
    (dpc = "done" /\ dret.kind = "value" /\ ~dret.success) =>
        dobs.tried = Range(DetectionMethods)

\* C9: a detection whose output is empty or the text null returns success with
\* count 0 and an empty list, in checkDriverUpdates and in checkWindowsUpdates.
IsAbsenceOutput(raw) == IsEmptyString(raw) \/ IsNullText(raw)
C9_EmptyOutputIsZeroResult ==
    /\ (dpc = "done" /\ dobs.resolved /\ IsAbsenceOutput(dobs.raw)) =>
           /\ dret.kind = "value" /\ dret.success
           /\ dret.driversFound = 0 /\ dret.drivers = <<>>
    /\ (spc = "done" /\ platform = "win32" /\ sobs.resolved /\ sobs.cb \in {"none", "ok"}
           /\ IsAbsenceOutput(sobs.raw)) =>
           /\ sret.kind = "value" /\ sret.success
           /\ sret.count = 0 /\ sret.updates = <<>>

\* C10: the step that settles the restore point continues exactly as after a
\* successful restore point when the restore point failed: on to the Preparing
\* checkpoint and the script write, with nothing returned because of it.
C10_RestoreFailureDoesNotAbort ==
    [][\A p \in Procs :
          (pc[p] = "restore" /\ pc'[p] # "restore" /\ obs'[p].restoreFailed) =>
              IF CbThrows(cb[p], 1)
              THEN pc'[p] = "done" /\ ret'[p].error = MsgCallback
              ELSE pc'[p] = "write" /\ ret'[p] = NoRet /\ scriptPath'[p] = now]_vars

C10_Witness ==
    \E p \in Procs : obs[p].restoreFailed /\ obs[p].installed

\* the requested ids of an invocation that its script's search found on offer
Found(p) == Range(driverIds[p]) \cap obs[p].available
\* the requested ids that the search did not find
NotFound(p) == Range(driverIds[p]) \ obs[p].available

\* C11: when the search of an invocation found some but not all of the requested
\* ids, the returned data.failed holds every id that was not found, data.updated
\* holds none of them, and the ids that were found were handed to the downloader.
C11_PartialMatchReported ==
    \A p \in Procs :
        (pc[p] = "done" /\ obs[p].searched /\ Found(p) # {} /\ NotFound(p) # {}) =>
            /\ NotFound(p) \subseteq Range(ret[p].failed)
            /\ NotFound(p) \cap Range(ret[p].updated) = {}
            /\ obs[p].handed
            /\ Found(p) \subseteq obs[p].target

\* C12: on a platform other than win32 a finished checkDriverUpdates has handed
\* its caller the value { success: false, error: 'Driver updates are only
\* available on Windows' } (not an exception) and has spawned no process.
C12_NonWindowsDetectionReturnsFailure ==
    (dpc = "done" /\ platform # "win32") =>
        /\ dret.kind = "value"
        /\ ~dret.success
        /\ dret.error = MsgNotWindows
        /\ dobs.spawned = 0

\* C13: on a platform without a strategy every operation that was called has
\* ended with the platform failure, whatever its other arguments (an empty id
\* list included), and has started no process, requested no restore point,
\* written no script and notified no callback: the driver operations and the
\* service query outside win32, the system operations outside darwin and win32.
C13_UnsupportedPlatformStartsNothing ==
    /\ platform # "win32" =>
          /\ dpc # "idle" =>
                /\ dpc = "done" /\ dret.error = MsgNotWindows
                /\ dobs.spawned = 0 /\ dobs.notified = 0
          /\ \A p \in Procs :
                pc[p] # "idle" =>
                    /\ pc[p] = "done" /\ ret[p].error = MsgNotWindows
                    /\ obs[p].spawned = 0 /\ obs[p].restorePoints = 0 /\ ~obs[p].wrote
                    /\ progress[p] = <<>>
          /\ wpc # "idle" =>
                wpc = "done" /\ wret = NotWindowsValue /\ wobs.spawned = 0
    /\ platform \notin {"darwin", "win32"} =>
          /\ spc # "idle" =>
                /\ spc = "done" /\ sret.error = MsgUnsupported
                /\ sobs.spawned = 0 /\ sobs.notified = 0
          /\ upc # "idle" =>
                /\ upc = "done" /\ uret.error = MsgUnsupported
                /\ uobs.spawned = 0 /\ uobs.notified = 0

C13_Witness ==
    \E p \in Procs :
        /\ platform = "linux" /\ pc[p] = "done"
        /\ Len(driverIds[p]) = 0 /\ ret[p].error = MsgNotWindows

\* C14: when the service query the caller holds observed the service stopped
\* (and the service is not disabled), a detection that has gone on to its search
\* was preceded by exactly one command that starts the service.
C14_StoppedServiceStartedOnce ==
    (/\ wpc = "done" /\ wobs.resolved /\ wobs.state = "STOPPED" /\ service # "disabled"
     /\ dpc \in {"exec", "done"} /\ dobs.spawned > 0) =>
        starts = 1

\* C15: while the service is disabled no step issues a command that starts or
\* re-enables it, and no step changes its state: the service is only read.
C15_DisabledServiceNeverStarted ==
    [][service = "disabled" => (starts' = starts /\ service' = service)]_vars

C15_Witness == service = "disabled" /\ wpc = "done" /\ wobs.resolved /\ ~wret.available

\* C16: a finished checkWindowsUpdate has returned a value with a reason text,
\* never an exception; the value has available = true only when the probe
\* resolved with output that reports the running service, and available = false
\* on a host other than win32, after a probe that failed (non-zero exit,
\* timeout, spawn error) and for an absent service.
C16_ServiceQueryNeverThrows ==
    wpc = "done" =>
        /\ wret.kind = "value"
        /\ wret.reason # NoText
        /\ wret.available =>
              wobs.resolved /\ wobs.state = "RUNNING" /\ service = "running"
        /\ (platform # "win32" \/ ~wobs.resolved \/ service = "absent") => ~wret.available

C16_Witness ==
    /\ platform = "win32" /\ service = "absent" /\ wpc = "done"
    /\ wobs.probe = "exited" /\ wret.reason = ReasonUnable

\* C17: the value a finished service query returned for a service that is
\* present but stopped is none of the values the query returns for a service
\* that is absent.
C17_AbsentDistinctFromStopped ==
    (wpc = "done" /\ platform = "win32" /\ service = "stopped") =>
        \A end \in ProbeEnds : wret # ServiceQueryValue("absent", end)

\* C18: an exception raised by the progress callback is never what a finished
\* checkDriverUpdates or updateDrivers throws, and never the error of the
\* result it returns.
C18_CallbackThrowContained ==
    /\ dpc = "done" => dret.error # MsgCallback
    /\ \A p \in Procs : pc[p] = "done" => ret[p].error # MsgCallback

\* what the external processes did to an invocation of updateDrivers
ExternalBehaviour(p) ==
    <<obs[p].restoreFailed, obs[p].execOutcome, obs[p].searched, obs[p].available,
      obs[p].installed, obs[p].code, obs[p].reboot, obs[p].unlinked>>

\* the external calls an invocation of updateDrivers made
ExternalCalls(p) ==
    <<obs[p].spawned, obs[p].restorePoints, obs[p].wrote, obs[p].handed, obs[p].target>>

StageCount == 2

\* C20: in the events one updateDrivers invocation has handed to its callback,
\* current never decreases from one event to a later one, total is the number
\* of requested ids plus the stage count in every event, and current is at most
\* total.
C20_ProgressMonotone ==
    \A p \in Procs :
        LET log == progress[p]
        IN  /\ \A i \in 1..Len(log) :
                  /\ log[i].total = Len(driverIds[p]) + StageCount
                  /\ log[i].current <= log[i].total
            /\ \A i, j \in 1..Len(log) : i < j => log[i].current <= log[j].current

C20_Witness ==
    \E p \in Procs : pc[p] = "done" /\ Len(driverIds[p]) = 1 /\ Len(progress[p]) = 4

\* an invocation of updateDrivers that passed the platform test and the
\* empty-selection validation
Accepted(p) == pc[p] # "idle" /\ IsWindows(platform) /\ ~IsEmptySelection(driverIds[p])

C22_TimeoutIdentifiable ==
    \A p \in Procs :
        (pc[p] = "done" /\ obs[p].execOutcome = "timeout") =>
            /\ ~ret[p].success
            /\ ret[p].error = MsgTimedOut

\* no element occurs twice in a list
NoDuplicates(l) == \A i, j \in 1..Len(l) : l[i] = l[j] => i = j

\* C23: the candidate ids of a successful detection result contain no
\* duplicates.
C23_DetectedIdsDistinct ==
    (dpc = "done" /\ dret.kind = "value" /\ dret.success) => NoDuplicates(dret.drivers)

\* output that is neither blank, nor the text null, nor JSON
Unparseable(raw) == raw.body = "garbage"

\* C24: a detection whose process printed output that cannot be parsed has not
\* returned success, in checkDriverUpdates and in checkWindowsUpdates.
C24_UnparseableOutputIsFailure ==
    /\ (dpc = "done" /\ dobs.resolved /\ Unparseable(dobs.raw)) =>
           dret.kind = "value" /\ ~dret.success
    /\ (spc = "done" /\ platform = "win32" /\ sobs.resolved /\ Unparseable(sobs.raw)) =>
           sret.kind = "value" /\ ~sret.success

\* output that is nothing but a line break
IsBlank(raw) == raw.body = "empty" /\ raw.pad

\* the number of elements each shape of raw output stands for
ShapeLength(raw) ==
    CASE raw.body \in {"empty", "null"} -> 0
      [] raw.body = "object" -> 1
      [] OTHER -> Len(raw.items)

\* C25: a detection whose process printed nothing, the text null, one JSON
\* object or a JSON array of N objects has returned success with a list of 0,
\* 0, 1 and N elements, in checkDriverUpdates and in checkWindowsUpdates (where
\* output of a line break alone is left aside).
C25_ParserNormalisesShapes ==
    /\ (dpc = "done" /\ dobs.resolved /\ ~Unparseable(dobs.raw)) =>
           /\ dret.kind = "value" /\ dret.success
           /\ Len(dret.drivers) = ShapeLength(dobs.raw)
           /\ dret.driversFound = ShapeLength(dobs.raw)
    /\ (spc = "done" /\ platform = "win32" /\ sobs.resolved /\ sobs.cb \in {"none", "ok"}
           /\ ~Unparseable(sobs.raw) /\ ~IsBlank(sobs.raw)) =>
           /\ sret.kind = "value" /\ sret.success
           /\ Len(sret.updates) = ShapeLength(sobs.raw)
           /\ sret.count = ShapeLength(sobs.raw)

\* C26: every result with success = false that updateDrivers has returned on
\* win32 carries an error text and a data object whose updated list is empty.
C26_FailureCarriesError ==
    \A p \in Procs :
        (pc[p] = "done" /\ IsWindows(platform) /\ cb[p] \in {"none", "ok"}
            /\ ~ret[p].success) =>
            /\ ret[p].kind = "value"
            /\ ret[p].error # NoText
            /\ ret[p].hasData /\ ret[p].updated = <<>>

\* C27: an updateDrivers invocation whose request includes the id of a candidate
\* marked informationalOnly has ended with a failure and has made no external
\* call: no process, no restore point, no script.
C27_InformationalIdsRejected ==
    \A p \in Procs :
        (pc[p] # "idle" /\ IsWindows(platform)
            /\ Range(driverIds[p]) \cap informational # {}) =>
            /\ pc[p] = "done" /\ ~ret[p].success
            /\ obs[p].spawned = 0 /\ obs[p].restorePoints = 0 /\ ~obs[p].wrote

\* C28: when updateDrivers has returned success, data.rebootRequired is the
\* reboot flag the platform reported for that install; when installWindowsUpdates
\* has returned success for an install whose result code is a success code,
\* data.requiresRestart is the reboot flag the platform reported.
C28_RebootFlagFromPlatform ==
    /\ \A p \in Procs :
          (pc[p] = "done" /\ ret[p].success) => ret[p].rebootRequired = obs[p].reboot
    /\ (upc = "done" /\ platform = "win32" /\ uret.success /\ IsSuccessCode(uobs.code)) =>
          uret.requiresRestart = uobs.restart

\* what the external processes did to an invocation of updateDrivers, the
\* deletion of the script file left out
InstallBehaviour(p) ==
    <<obs[p].restoreFailed, obs[p].execOutcome, obs[p].searched, obs[p].available,
      obs[p].installed, obs[p].code, obs[p].reboot>>

\* C29: two finished updateDrivers runs with the same ids, the same callback
\* and the same install outcome, one whose script file was deleted and one whose
\* deletion failed, have returned the same result; a run whose deletion failed
\* never returns the deletion error.
C29_UnlinkFailureNotSurfaced ==
    /\ \A p, q \in Procs :
          (/\ pc[p] = "done" /\ pc[q] = "done"
           /\ driverIds[p] = driverIds[q] /\ cb[p] = cb[q]
           /\ InstallBehaviour(p) = InstallBehaviour(q)
           /\ obs[p].unlinked = "ok" /\ obs[q].unlinked = "failed") =>
              ret[p] = ret[q]
    /\ \A p \in Procs :
          (pc[p] = "done" /\ obs[p].unlinked = "failed") => ret[p].error # MsgUnlinkFailed

\* two comparable finished runs, one with a deleted script and one with a
\* failed deletion
C29_Witness ==
    \E p, q \in Procs :
        /\ pc[p] = "done" /\ pc[q] = "done"
        /\ driverIds[p] = driverIds[q] /\ cb[p] = cb[q]
        /\ InstallBehaviour(p) = InstallBehaviour(q)
        /\ obs[p].unlinked = "ok" /\ obs[q].unlinked = "failed"

\* the stages of one updateDrivers invocation in the order of the spec:
\* Validating, CreatingRestorePoint, Preparing, DownloadingInstalling,
\* Interpreting, then Completed or Failed
StageSequence == <<"idle", "restore", "write", "exec", "unlink", "done">>
StageIndex(stage) == CHOOSE i \in 1..Len(StageSequence) : StageSequence[i] = stage

\* C30: every step of an updateDrivers invocation that changes its stage goes
\* to the next stage of the sequence or, from a stage before Interpreting,
\* straight to the end with a failure; when the install process starts, the
\* one restore-point attempt has settled and the script has been written.
C30_StagesInOrder ==
    [][\A p \in Procs :
          /\ pc'[p] # pc[p] =>
                \/ StageIndex(pc'[p]) = StageIndex(pc[p]) + 1
                \/ /\ pc'[p] = "done"
                   /\ StageIndex(pc[p]) < StageIndex("unlink")
                   /\ ~ret'[p].success
          /\ (pc'[p] = "exec" /\ pc[p] # "exec") =>
                /\ pc[p] = "write"
                /\ obs'[p].restorePoints = 1
                /\ obs'[p].wrote
                /\ fs'[scriptPath'[p]].exists]_vars

\* an invocation that went through every stage and ended after Interpreting
C30_Witness ==
    \E p \in Procs :
        /\ pc[p] = "done" /\ obs[p].unlinked # "none"
        /\ obs[p].restorePoints = 1 /\ obs[p].wrote /\ obs[p].execOutcome = "exited"

\* C31: a finished installWindowsUpdates has returned success only when the
\* output of the install command was the result code 2 or 3.
C31_SystemSuccessOnlyOnSuccessCode ==
    (upc = "done" /\ platform = "win32" /\ uret.success) => IsSuccessCode(uobs.code)

\* C32: the updates a finished updateDrivers of part_001 has installed are
\* among the requested ids, and the updates a finished installSystemUpdates has
\* installed are among the ones the caller selected.
C32_OnlySelectedInstalled ==
    /\ vpc = "done" => vobs.applied \subseteq Range(vobs.ids)
    /\ upc = "done" => uobs.applied \subseteq uobs.selected

\* C33: a checkDriverUpdates whose process is running eventually returns, and a
\* checkSystemUpdates (checkMacOSUpdates, checkWindowsUpdates) whose process is
\* running eventually returns, whether or not the process ever exits.
C33_DetectionEventuallyReturns ==
    /\ (dpc = "exec") ~> (dpc = "done")
    /\ (spc = "exec") ~> (spc = "done")

\* C34: no id that contains a script metacharacter is among the ids
\* interpolated into a script file that updateDrivers has written.
C34_NoMetacharInScript ==
    \A f \in Paths :
        fs[f].exists => \A i \in 1..Len(fs[f].ids) : ~HasMetachar(fs[f].ids[i])

\* C35: in every result that updateDrivers has returned for a non-empty request,
\* data.updated and data.failed are disjoint and together hold exactly the
\* requested ids; success is true exactly when updated is the request and
\* failed is empty, false exactly when failed is the request and updated is
\* empty; and a failure result has rebootRequired false.
C35_AllOrNothingResult ==
    \A p \in Procs :
        (pc[p] = "done" /\ ret[p].kind = "value" /\ Len(driverIds[p]) > 0) =>
            /\ Range(ret[p].updated) \cap Range(ret[p].failed) = {}
            /\ Range(ret[p].updated) \cup Range(ret[p].failed) = Range(driverIds[p])
            /\ ret[p].success <=> (ret[p].updated = driverIds[p] /\ ret[p].failed = <<>>)
            /\ ~ret[p].success <=> (ret[p].failed = driverIds[p] /\ ret[p].updated = <<>>)
            /\ ~ret[p].success => ~ret[p].rebootRequired

\* a result computed from the output of a finished install script, and a
\* result made by the catch block
C35_Witness ==
    \E p \in Procs :
        /\ pc[p] = "done" /\ ret[p].kind = "value" /\ Len(driverIds[p]) = 2
        /\ ret[p].failed = driverIds[p]
        /\ obs[p].unlinked # "none" /\ ret[p].resultCode # NoCode

\* the stages in which an invocation has chosen its script path and may still
\* write, run or delete the file
HoldsScript == {"write", "exec", "unlink"}

\* C36: two updateDrivers invocations that both hold a script path hold
\* different paths, and the script an invocation's process has loaded lists
\* exactly that invocation's requested ids.
C36_ScriptPathsDistinct ==
    /\ \A p, q \in Procs :
          (p # q /\ pc[p] \in HoldsScript /\ pc[q] \in HoldsScript) =>
              scriptPath[p] # scriptPath[q]
    /\ \A p \in Procs :
          child[p].state = "loaded" => child[p].target = ScriptTargetIds(driverIds[p])

\* C37: in every success result that checkSystemUpdates has returned, count is
\* the length of updates, no element of updates is null, and available is true
\* exactly when count is greater than 0.
C37_SystemListConsistent ==
    (spc = "done" /\ sret.success) =>
        /\ sret.count = Len(sret.updates)
        /\ \A i \in 1..Len(sret.updates) : sret.updates[i] # NullItem
        /\ sret.available <=> sret.count > 0

C39_ViewSerialisesCalls ==
    [][/\ \A p \in Procs :
             (pc[p] = "idle" /\ pc'[p] # "idle") =>
                 /\ dpc = "idle"
                 /\ \A q \in Procs : pc[q] = "idle"
                 /\ driverIds'[p] = selectedDrivers
                 /\ selectedDrivers # <<>>
                 /\ Range(selectedDrivers) \subseteq Range(viewDrivers)
       /\ (dpc = "idle" /\ dpc' # "idle") => \A q \in Procs : pc[q] = "idle"]_vars

\* an update started from the view is in flight and the user has meanwhile
\* changed the selection by a click on a row
C39_Witness ==
    \E p \in Procs :
        /\ pc[p] = "exec" /\ isUpdating
        /\ driverIds[p] # selectedDrivers
        /\ Len(viewDrivers) = 2
====
